---- MODULE Spec2Model ----
(***************************************************************************)
(* InvoiceRegistry (src/contracts/InvoiceRegistry.sol) as a state machine.  *)
(*                                                                         *)
(* The contract's storage (invoices, nextInvoiceId, nonces), its event log  *)
(* and the Bank's record of executed transfers are the state.  A call that  *)
(* reverts leaves no trace (EVM semantics): the state at the start of the   *)
(* call is restored.  pay and createAndPayInvoice make one external call    *)
(* (IBank.transferFrom); the state between the start of that call and its   *)
(* return is modelled by a frame on `stack`, so that calls re-entering the  *)
(* registry while the transfer is in progress are part of the behaviours.   *)
(***************************************************************************)
EXTENDS Integers, Sequences, FiniteSets, TLC

(* ------------------------------ bounds -------------------------------- *)

\* At most MaxInvoices identifiers are allocated in one behaviour.
MaxInvoices == 2

\* block.timestamp runs over 1..MaxTime.
MaxTime == 2

\* At most MaxDepth transferFrom calls are in progress at once.
MaxDepth == 1

(* --------------------------- value domains ---------------------------- *)

\* address(0)
Zero == "0x0"

\* The accounts that send transactions (msg.sender is never address(0)).
Addresses == {"alice", "bob"}

AnyAddress == Addresses \cup {Zero}

\* What ecrecover yields for a well-formed signature over another digest:
\* an address nobody controls.
Stranger == "stranger"

\* What merchants invoice for: the _payer (address(0): anyone may pay),
\* _amount and _metadata of a call to createInvoice or createAndPayInvoice.
Orders ==
    {[payer |-> Zero, amount |-> 1, metadata |-> "order-1"],
     [payer |-> "bob", amount |-> 2, metadata |-> "order-2"]}

Payers == {o.payer : o \in Orders}

Amounts == {o.amount : o \in Orders}

Metadata == {o.metadata : o \in Orders}

\* The _expiresAt of every order: with block.timestamp in 1..MaxTime a call
\* comes at and after the deadline.
Deadline == 1

\* Identifiers calls may name; MaxInvoices itself is never allocated.
Ids == 0 .. MaxInvoices

\* keccak256 is collision resistant: the digest determines the input.
keccak256(x) == <<"keccak256", x>>

\* bytes32(0), the metaHash of a storage slot never written.
ZeroHash == <<"bytes32", "0">>

\* A storage slot of `invoices` that was never written.
EmptyInvoice ==
    [merchant |-> Zero, payer |-> Zero, amount |-> 0, expiresAt |-> 0,
     status |-> 0, metaHash |-> ZeroHash]

\* The deployment: chainid() and address(this) of this registry.
ThisDomain == [chainId |-> "stable-testnet", verifyingContract |-> "registry"]

\* The same contract code deployed elsewhere.
Domains ==
    {ThisDomain,
     [chainId |-> "stable-testnet", verifyingContract |-> "other-registry"],
     [chainId |-> "other-chain", verifyingContract |-> "registry"]}

DomainSeparator(d) ==
    keccak256(<<"EIP712Domain", "StablePay", "1", d.chainId, d.verifyingContract>>)

DOMAIN_SEPARATOR == DomainSeparator(ThisDomain)

INVOICE_TYPEHASH ==
    keccak256("Invoice(address merchant,address payer,uint256 amount,uint64 expiresAt,bytes32 metaHash,uint256 nonce)")

(* ----------------------------- signatures ----------------------------- *)

\* The struct the merchant signs.
Message(merchant, payer, amount, expiresAt, metaHash, nonce) ==
    [merchant |-> merchant, payer |-> payer, amount |-> amount,
     expiresAt |-> expiresAt, metaHash |-> metaHash, nonce |-> nonce]

\* A struct hash that leaves the metadata digest out of the encoding.
hashStructNoMetaHash(m) ==
    keccak256(<<INVOICE_TYPEHASH, m.merchant, m.payer, m.amount, m.expiresAt, m.nonce>>)

\* keccak256(abi.encode(INVOICE_TYPEHASH, ...))
hashStruct(m) ==
    keccak256(<<INVOICE_TYPEHASH, m.merchant, m.payer, m.amount, m.expiresAt,
                m.metaHash, m.nonce>>)

\* keccak256(abi.encodePacked("\x19\x01", domainSeparator, structHash))
hashTypedData(domainSeparator, m) ==
    keccak256(<<"1901", domainSeparator, hashStruct(m)>>)

\* (v, r, s) as signTypedData(domain, types, value) produces it with the key
\* of `signer`: it is a signature over one digest only.
Sign(signer, domain, message) ==
    [signer |-> signer, domain |-> domain, message |-> message]

\* (v, r, s) that no key produced.
Malformed == Sign(Zero, ThisDomain, Message(Zero, Zero, 0, 0, ZeroHash, 0))

\* ecrecover: address(0) for a malformed signature, the signer for the
\* digest that was signed, an unrelated address for any other digest.
ecrecover(digest, sig) ==
    IF sig.signer = Zero THEN Zero
    ELSE IF hashTypedData(DomainSeparator(sig.domain), sig.message) = digest THEN sig.signer
    ELSE Stranger

VARIABLES
    invoices,       \* mapping(uint256 => Invoice)
    nextInvoiceId,  \* uint256
    nonces,         \* mapping(address => uint256)
    events,         \* the log, by the indexed invoiceId: the events emitted, in order
    transfers,      \* the Bank, by invoice: the transferFrom calls it executed
    consumed,       \* the signatures createAndPayInvoice accepted
    now,            \* block.timestamp
    stack,          \* the calls waiting for transferFrom to return
    last            \* the call that completed last and how it ended

vars == <<invoices, nextInvoiceId, nonces, events, transfers, consumed, now, stack, last>>

(* ----------------------------- the chain ------------------------------ *)

\* Everything a revert restores.
Snapshot ==
    [invoices |-> invoices, nextInvoiceId |-> nextInvoiceId, nonces |-> nonces,
     events |-> events, transfers |-> transfers, consumed |-> consumed]

\* The state the chain holds if every call in progress reverts: what is
\* on-chain when no call is in progress, else what was on-chain when the
\* outermost call in progress began.
Committed == IF stack = <<>> THEN Snapshot ELSE stack[1].snap

\* The arguments of a createAndPayInvoice call.
Auth(merchant, payer, amount, expiresAt, metadata, sig) ==
    [merchant |-> merchant, payer |-> payer, amount |-> amount,
     expiresAt |-> expiresAt, metadata |-> metadata, sig |-> sig]

\* What `last` holds of a call that takes an invoice id instead.
NoAuth == Auth(Zero, Zero, 0, 0, "", Malformed)

\* A completed call: the function, msg.sender, the invoice id it named or
\* allocated (the id it would have allocated, if it reverted before), the
\* revert string or "ok", and the arguments of a createAndPayInvoice.
Call(op, sender, id, result, auth) ==
    [op |-> op, sender |-> sender, id |-> id, result |-> result, auth |-> auth]

\* No call has completed since the last outcome was taken.
NoCall == Call("none", Zero, 0, "none", NoAuth)

\* emit: the entry joins those recorded for the invoice.
Emit(log, id, entry) == [log EXCEPT ![id] = Append(@, entry)]

\* A chain whose first block has timestamp 0, the default expiresAt of
\* storage never written.
InitAtGenesis ==
    /\ invoices = [i \in Ids |-> EmptyInvoice]
    /\ nextInvoiceId = 0
    /\ nonces = [a \in AnyAddress |-> 0]
    /\ events = [i \in Ids |-> <<>>]
    /\ transfers = [i \in Ids |-> <<>>]
    /\ consumed = {}
    /\ now = 0
    /\ stack = <<>>
    /\ last = NoCall

Init ==
    /\ invoices = [i \in Ids |-> EmptyInvoice]
    /\ nextInvoiceId = 0
    /\ nonces = [a \in AnyAddress |-> 0]
    /\ events = [i \in Ids |-> <<>>]
    /\ transfers = [i \in Ids |-> <<>>]
    /\ consumed = {}
    /\ now = 1
    /\ stack = <<>>
    /\ last = NoCall

(* ---------------------------- createInvoice --------------------------- *)

\* An invoice record that always starts Pending.
NewInvoicePending(merchant, payer, amount, expiresAt, status, metaHash) ==
    [merchant |-> merchant, payer |-> payer, amount |-> amount,
     expiresAt |-> expiresAt, status |-> 0, metaHash |-> metaHash]

NewInvoice(merchant, payer, amount, expiresAt, status, metaHash) ==
    [merchant |-> merchant, payer |-> payer, amount |-> amount,
     expiresAt |-> expiresAt, status |-> status, metaHash |-> metaHash]

\* An InvoiceCreated that announces the id after the one assigned.
InvoiceCreatedNextId(id, inv, metadata) ==
    [name |-> "InvoiceCreated", invoiceId |-> id + 1, merchant |-> inv.merchant,
     payer |-> inv.payer, amount |-> inv.amount, expiresAt |-> inv.expiresAt,
     metaHash |-> inv.metaHash, metadata |-> metadata]

InvoiceCreated(id, inv, metadata) ==
    [name |-> "InvoiceCreated", invoiceId |-> id, merchant |-> inv.merchant,
     payer |-> inv.payer, amount |-> inv.amount, expiresAt |-> inv.expiresAt,
     metaHash |-> inv.metaHash, metadata |-> metadata]

InvoicePaid(id, payer, merchant, amount) ==
    [name |-> "InvoicePaid", invoiceId |-> id, payer |-> payer,
     merchant |-> merchant, amount |-> amount]

InvoiceCancelled(id) == [name |-> "InvoiceCancelled", invoiceId |-> id]

createInvoice(sender, _payer, _amount, _expiresAt, _metadata) ==
    /\ nextInvoiceId < MaxInvoices
    /\ LET invoiceId == nextInvoiceId
           inv == NewInvoice(sender, _payer, _amount, _expiresAt, 0, keccak256(_metadata))
       IN  /\ nextInvoiceId' = nextInvoiceId + 1
           /\ invoices' = [invoices EXCEPT ![invoiceId] = inv]
           /\ events' = Emit(events, invoiceId, InvoiceCreated(invoiceId, inv, _metadata))
           /\ last' = Call("createInvoice", sender, invoiceId, "ok", NoAuth)
    /\ UNCHANGED <<nonces, transfers, consumed, now, stack>>

(* --------------------------------- pay -------------------------------- *)

\* pay without require(invoice.status == 0).
PayRequireAnyStatus(invoice, sender, timestamp) ==
    IF ~(timestamp <= invoice.expiresAt) THEN "Expired"
    ELSE IF invoice.payer # Zero /\ sender # invoice.payer THEN "Wrong payer"
    ELSE "ok"

\* pay that checks the expiry before the status.
PayRequireExpiryFirst(invoice, sender, timestamp) ==
    IF ~(timestamp <= invoice.expiresAt) THEN "Expired"
    ELSE IF invoice.status # 0 THEN "Not pending"
    ELSE IF invoice.payer # Zero /\ sender # invoice.payer THEN "Wrong payer"
    ELSE "ok"

\* pay that checks the payer before the expiry.
PayRequirePayerFirst(invoice, sender, timestamp) ==
    IF invoice.status # 0 THEN "Not pending"
    ELSE IF invoice.payer # Zero /\ sender # invoice.payer THEN "Wrong payer"
    ELSE IF ~(timestamp <= invoice.expiresAt) THEN "Expired"
    ELSE "ok"

\* pay without the payer restriction.
PayRequireAnyPayer(invoice, sender, timestamp) ==
    IF invoice.status # 0 THEN "Not pending"
    ELSE IF ~(timestamp <= invoice.expiresAt) THEN "Expired"
    ELSE "ok"

\* pay that checks the status after the expiry and the payer.
PayRequireStatusLast(invoice, sender, timestamp) ==
    IF ~(timestamp <= invoice.expiresAt) THEN "Expired"
    ELSE IF invoice.payer # Zero /\ sender # invoice.payer THEN "Wrong payer"
    ELSE IF invoice.status # 0 THEN "Not pending"
    ELSE "ok"

\* pay without the expiry check.
PayRequireNoExpiry(invoice, sender, timestamp) ==
    IF invoice.status # 0 THEN "Not pending"
    ELSE IF invoice.payer # Zero /\ sender # invoice.payer THEN "Wrong payer"
    ELSE "ok"

\* The require statements of pay, in order: the revert string of the first
\* one that fails, "ok" when all pass.
PayRequire(invoice, sender, timestamp) ==
    IF invoice.status # 0 THEN "Not pending"
    ELSE IF ~(timestamp <= invoice.expiresAt) THEN "Expired"
    ELSE IF invoice.payer # Zero /\ sender # invoice.payer THEN "Wrong payer"
    ELSE "ok"

\* pay that leaves the status for after the external call.
PayEffectLate(invoice) == invoice

\* invoice.status = 1, written before the external call.
\* A pay that also clears the amount of the invoice it settles.
PayEffectSettles(invoice) == [invoice EXCEPT !.status = 1, !.amount = 0]

PayEffect(invoice) == [invoice EXCEPT !.status = 1]

\* A call by msg.sender waiting for transferFrom(from, to, amount) to return;
\* snap is the state a revert of the call restores.
Frame(op, id, sender, from, to, amount, auth, snap) ==
    [op |-> op, id |-> id, sender |-> sender, from |-> from, to |-> to,
     amount |-> amount, auth |-> auth, snap |-> snap]

\* pay that sends the amount back to the caller.
PayTransferToSender(sender, id, invoice) ==
    Frame("pay", id, sender, sender, sender, invoice.amount, NoAuth, Snapshot)

\* The arguments pay passes to transferFrom.
PayTransfer(sender, id, invoice) ==
    Frame("pay", id, sender, sender, invoice.merchant, invoice.amount, NoAuth, Snapshot)

\* A pay that marks the invoice before the payer check and, when the check
\* fails, returns without undoing the write.
payWritesFirst(sender, _invoiceId) ==
    LET invoice == invoices[_invoiceId]
        r == PayRequire(invoice, sender, now)
    IN  IF r # "ok"
        THEN /\ last' = Call("pay", sender, _invoiceId, r, NoAuth)
             /\ invoices' = IF r = "Wrong payer"
                            THEN [invoices EXCEPT ![_invoiceId] = PayEffect(invoice)]
                            ELSE invoices
             /\ UNCHANGED <<nextInvoiceId, nonces, events, transfers, consumed, now, stack>>
        ELSE /\ Len(stack) < MaxDepth
             /\ invoices' = [invoices EXCEPT ![_invoiceId] = PayEffect(invoice)]
             /\ stack' = Append(stack, PayTransfer(sender, _invoiceId, invoices'[_invoiceId]))
             /\ UNCHANGED <<nextInvoiceId, nonces, events, transfers, consumed,
                            now, last>>

pay(sender, _invoiceId) ==
    LET invoice == invoices[_invoiceId]
        r == PayRequire(invoice, sender, now)
    IN  IF r # "ok"
        THEN /\ last' = Call("pay", sender, _invoiceId, r, NoAuth)
             /\ UNCHANGED <<invoices, nextInvoiceId, nonces, events, transfers,
                            consumed, now, stack>>
        ELSE /\ Len(stack) < MaxDepth
             /\ invoices' = [invoices EXCEPT ![_invoiceId] = PayEffect(invoice)]
             /\ stack' = Append(stack, PayTransfer(sender, _invoiceId, invoices'[_invoiceId]))
             /\ UNCHANGED <<nextInvoiceId, nonces, events, transfers, consumed,
                            now, last>>

(* ----------------------- IBank.transferFrom returns -------------------- *)

\* A revert that misses the counter: the failed creation has used an id.
RevertButCounter(frame) == [frame.snap EXCEPT !.nextInvoiceId = nextInvoiceId]

\* A revert that misses the invoice table: the record of the failed call stays.
RevertButInvoices(frame) == [frame.snap EXCEPT !.invoices = invoices]

\* A revert that restores everything but the status pay had written.
RevertKeepsPaid(frame) ==
    [frame.snap EXCEPT !.invoices =
        [id \in Ids |-> IF id = frame.id /\ frame.op = "pay"
                        THEN invoices[id] ELSE frame.snap.invoices[id]]]

\* A revert that misses the nonce table: the increment survives the failure.
RevertButNonces(frame) == [frame.snap EXCEPT !.nonces = nonces]

\* A pay that returns on a failed transfer instead of reverting.
RevertNothing(frame) == Snapshot

\* require(transferFrom(...), "Transfer failed") when it returned false: the
\* call reverts, and the state is the one the call started from.
Revert(frame) == frame.snap

\* The event pay and createAndPayInvoice emit after the transfer.
PaidEvent(frame) == InvoicePaid(frame.id, frame.from, frame.to, frame.amount)

\* What the Bank records of a transferFrom it executed.
Transfer(frame) ==
    [from |-> frame.from, to |-> frame.to, amount |-> frame.amount]

transferFromReturns(success) ==
    /\ stack # <<>>
    /\ LET frame == stack[Len(stack)]
       IN  /\ stack' = SubSeq(stack, 1, Len(stack) - 1)
           /\ IF success
              THEN /\ transfers' = Emit(transfers, frame.id, Transfer(frame))
                   /\ events' = Emit(events, frame.id, PaidEvent(frame))
                   /\ last' = Call(frame.op, frame.sender, frame.id, "ok", frame.auth)
                   /\ UNCHANGED <<invoices, nextInvoiceId, nonces, consumed>>
              ELSE /\ invoices' = Revert(frame).invoices
                   /\ nextInvoiceId' = Revert(frame).nextInvoiceId
                   /\ nonces' = Revert(frame).nonces
                   /\ events' = Revert(frame).events
                   /\ transfers' = Revert(frame).transfers
                   /\ consumed' = Revert(frame).consumed
                   /\ last' = Call(frame.op, frame.sender, frame.id, "Transfer failed", frame.auth)
    /\ UNCHANGED now

(* ---------------------------- cancelInvoice --------------------------- *)

\* cancelInvoice without require(msg.sender == invoice.merchant).
CancelRequireAnyCaller(invoice, sender) ==
    IF invoice.status # 0 THEN "Cannot cancel" ELSE "ok"

\* cancelInvoice that checks the status before the caller.
CancelRequireStatusFirst(invoice, sender) ==
    IF invoice.status # 0 THEN "Cannot cancel"
    ELSE IF sender # invoice.merchant THEN "Not merchant"
    ELSE "ok"

\* cancelInvoice without require(invoice.status == 0).
CancelRequireAnyStatus(invoice, sender) ==
    IF sender # invoice.merchant THEN "Not merchant" ELSE "ok"

CancelRequire(invoice, sender) ==
    IF sender # invoice.merchant THEN "Not merchant"
    ELSE IF invoice.status # 0 THEN "Cannot cancel"
    ELSE "ok"

\* cancelInvoice that clears the record it cancels.
CancelEffectClears(invoice) == [EmptyInvoice EXCEPT !.status = 2]

CancelEffect(invoice) == [invoice EXCEPT !.status = 2]

cancelInvoice(sender, _invoiceId) ==
    LET invoice == invoices[_invoiceId]
        r == CancelRequire(invoice, sender)
    IN  /\ last' = Call("cancelInvoice", sender, _invoiceId, r, NoAuth)
        /\ IF r # "ok"
           THEN UNCHANGED <<invoices, events>>
           ELSE /\ invoices' = [invoices EXCEPT ![_invoiceId] = CancelEffect(invoice)]
                /\ events' = Emit(events, _invoiceId, InvoiceCancelled(_invoiceId))
        /\ UNCHANGED <<nextInvoiceId, nonces, transfers, consumed, now, stack>>

(* ------------------------- createAndPayInvoice ------------------------ *)

\* A digest built from the nonce the signature names, not from nonces[_merchant].
_verifySignatureAnyNonce(_merchant, _payer, _amount, _expiresAt, _metaHash, _nonce, sig) ==
    LET digest == hashTypedData(DOMAIN_SEPARATOR,
                      Message(_merchant, _payer, _amount, _expiresAt, _metaHash,
                              sig.message.nonce))
        recovered == ecrecover(digest, sig)
    IN  recovered # Zero /\ recovered = _merchant

\* _verifySignature without recovered != address(0).
_verifySignatureZeroAllowed(_merchant, _payer, _amount, _expiresAt, _metaHash, _nonce, sig) ==
    LET digest == hashTypedData(DOMAIN_SEPARATOR,
                      Message(_merchant, _payer, _amount, _expiresAt, _metaHash, _nonce))
        recovered == ecrecover(digest, sig)
    IN  recovered = _merchant

_verifySignature(_merchant, _payer, _amount, _expiresAt, _metaHash, _nonce, sig) ==
    LET digest == hashTypedData(DOMAIN_SEPARATOR,
                      Message(_merchant, _payer, _amount, _expiresAt, _metaHash, _nonce))
        recovered == ecrecover(digest, sig)
    IN  recovered # Zero /\ recovered = _merchant

\* The require statements of createAndPayInvoice before the transfer, in
\* order.
\* createAndPayInvoice whose deadline is exclusive: block.timestamp < _expiresAt.
GaslessRequireExclusive(sender, _merchant, _payer, _amount, _expiresAt, _metadata, sig, timestamp, currentNonce) ==
    IF ~(timestamp < _expiresAt) THEN "Expired"
    ELSE IF _payer # Zero /\ sender # _payer THEN "Wrong payer"
    ELSE IF ~_verifySignature(_merchant, _payer, _amount, _expiresAt,
                              keccak256(_metadata), currentNonce, sig)
         THEN "Invalid signature"
    ELSE "ok"

GaslessRequire(sender, _merchant, _payer, _amount, _expiresAt, _metadata, sig, timestamp, currentNonce) ==
    IF ~(timestamp <= _expiresAt) THEN "Expired"
    ELSE IF _payer # Zero /\ sender # _payer THEN "Wrong payer"
    ELSE IF ~_verifySignature(_merchant, _payer, _amount, _expiresAt,
                              keccak256(_metadata), currentNonce, sig)
         THEN "Invalid signature"
    ELSE "ok"

\* createAndPayInvoice that moves the nonce two ahead.
NonceSkips(currentNonce) == currentNonce + 2

\* createAndPayInvoice that leaves the nonce as it is.
NonceKept(currentNonce) == currentNonce

\* nonces[_merchant] = currentNonce + 1
NonceEffect(currentNonce) == currentNonce + 1

\* createAndPayInvoice that pulls the amount from the merchant who signed.
GaslessTransferFromMerchant(sender, id, auth) ==
    Frame("createAndPayInvoice", id, sender, auth.merchant, auth.merchant, auth.amount,
          auth, Snapshot)

\* The arguments createAndPayInvoice passes to transferFrom.
GaslessTransfer(sender, id, auth) ==
    Frame("createAndPayInvoice", id, sender, sender, auth.merchant, auth.amount, auth, Snapshot)

\* createAndPayInvoice that advances nonces[msg.sender] instead of
\* nonces[_merchant].
createAndPayInvoiceSenderNonce(sender, _merchant, _payer, _amount, _expiresAt, _metadata, sig) ==
    LET currentNonce == nonces[_merchant]
        r == GaslessRequire(sender, _merchant, _payer, _amount, _expiresAt, _metadata,
                            sig, now, currentNonce)
        invoiceId == nextInvoiceId
        inv == NewInvoice(_merchant, _payer, _amount, _expiresAt, 1, keccak256(_metadata))
        auth == Auth(_merchant, _payer, _amount, _expiresAt, _metadata, sig)
    IN  IF r # "ok"
        THEN /\ last' = Call("createAndPayInvoice", sender, invoiceId, r, auth)
             /\ UNCHANGED <<invoices, nextInvoiceId, nonces, events, transfers,
                            consumed, now, stack>>
        ELSE /\ nextInvoiceId < MaxInvoices
             /\ Len(stack) < MaxDepth
             /\ nonces' = [nonces EXCEPT ![sender] = NonceEffect(nonces[sender])]
             /\ nextInvoiceId' = nextInvoiceId + 1
             /\ invoices' = [invoices EXCEPT ![invoiceId] = inv]
             /\ events' = Emit(events, invoiceId, InvoiceCreated(invoiceId, inv, _metadata))
             /\ consumed' = consumed \cup {sig}
             /\ stack' = Append(stack, GaslessTransfer(sender, invoiceId, auth))
             /\ UNCHANGED <<transfers, now, last>>

createAndPayInvoice(sender, _merchant, _payer, _amount, _expiresAt, _metadata, sig) ==
    LET currentNonce == nonces[_merchant]
        r == GaslessRequire(sender, _merchant, _payer, _amount, _expiresAt, _metadata,
                            sig, now, currentNonce)
        invoiceId == nextInvoiceId
        inv == NewInvoice(_merchant, _payer, _amount, _expiresAt, 1, keccak256(_metadata))
        auth == Auth(_merchant, _payer, _amount, _expiresAt, _metadata, sig)
    IN  IF r # "ok"
        THEN /\ last' = Call("createAndPayInvoice", sender, invoiceId, r, auth)
             /\ UNCHANGED <<invoices, nextInvoiceId, nonces, events, transfers,
                            consumed, now, stack>>
        ELSE /\ nextInvoiceId < MaxInvoices
             /\ Len(stack) < MaxDepth
             /\ nonces' = [nonces EXCEPT ![_merchant] = NonceEffect(currentNonce)]
             /\ nextInvoiceId' = nextInvoiceId + 1
             /\ invoices' = [invoices EXCEPT ![invoiceId] = inv]
             /\ events' = Emit(events, invoiceId, InvoiceCreated(invoiceId, inv, _metadata))
             /\ consumed' = consumed \cup {sig}
             /\ stack' = Append(stack, GaslessTransfer(sender, invoiceId, auth))
             /\ UNCHANGED <<transfers, now, last>>

\* The signatures a submission may carry: the merchant's over exactly the
\* submitted fields under the current, the previous or the next nonce, those
\* that differ from it in the signer or in the domain, and a malformed one.
\* Nobody holds a key of address(0).
SigChoices(m, p, a, e, md, n) ==
    LET msg == Message(m, p, a, e, keccak256(md), n)
    IN  IF m = Zero
        THEN {Malformed} \cup {Sign(s, ThisDomain, msg) : s \in Addresses}
        ELSE {Malformed}
             \cup {Sign(m, ThisDomain, [msg EXCEPT !.nonce = k]) : k \in {n - 1, n, n + 1} \ {-1}}
             \cup {Sign(s, ThisDomain, msg) : s \in Addresses}
             \cup {Sign(m, d, msg) : d \in Domains}

(* ------------------------------ getInvoice ---------------------------- *)

\* A view: the six fields of the storage slot, written or not.
getInvoice(_invoiceId) ==
    LET i == invoices[_invoiceId]
    IN  [merchant |-> i.merchant, payer |-> i.payer, amount |-> i.amount,
         expiresAt |-> i.expiresAt, status |-> i.status, metaHash |-> i.metaHash]

(* -------------------------------- client -------------------------------- *)

\* enum InvoiceStatus of the client.
InvoiceStatus == [NONE |-> 0, CREATED |-> 1, PAID |-> 2, CANCELLED |-> 3]

\* The meaning the contract gives to the uint8 it stores.
StatusOnChain == [Pending |-> 0, Paid |-> 1, Cancelled |-> 2]

\* PaymentPage.fetchInvoiceData: the invoice the page keeps after a refresh,
\* its status being Number(data.status) of getInvoice.
fetchInvoiceData(invoiceId) ==
    LET data == getInvoice(invoiceId)
    IN  [id |-> invoiceId, merchant |-> data.merchant, payer |-> data.payer,
         amount |-> data.amount, expiresAt |-> data.expiresAt,
         status |-> data.status, metaHash |-> data.metaHash]

\* What the payment page shows for the invoice it keeps: the PAID badge when
\* isPaid, the CANCELLED badge when isCancelled, the pay button otherwise.
PageShows(invoice) ==
    IF invoice.status = InvoiceStatus.PAID THEN "PAID"
    ELSE IF invoice.status = InvoiceStatus.CANCELLED THEN "CANCELLED"
    ELSE "pending"

\* What the contract's status stands for, in the words of the page.
ContractMeans(status) ==
    IF status = StatusOnChain.Paid THEN "PAID"
    ELSE IF status = StatusOnChain.Cancelled THEN "CANCELLED"
    ELSE "pending"

\* What the merchant types into the dashboard form: the amount as a decimal
\* string of whole gUSDT, the payer (empty for anyone) and the description.
Forms ==
    {[amount |-> "1", payer |-> "", description |-> "Coffee"],
     [amount |-> "2", payer |-> "bob", description |-> "Logo"]}

Descriptions == {f.description : f \in Forms}

\* The client's clock runs with the chain's, one tick an hour: createInvoice
\* of the client sets the expiry 60 minutes ahead, handleCreateGasless 24
\* hours ahead.
Hour == 1

Day == 24 * Hour

\* ethers.parseUnits(amount, 18) of a decimal string; the amounts of the
\* model count whole gUSDT.
parseUnits(amount) ==
    IF \E n \in 0 .. 9 : ToString(n) = amount
    THEN CHOOSE n \in 0 .. 9 : ToString(n) = amount
    ELSE 0

\* Number(s) of the decimal string of a time.
Number(s) ==
    IF \E n \in 0 .. MaxTime + Day : ToString(n) = s
    THEN CHOOSE n \in 0 .. MaxTime + Day : ToString(n) = s
    ELSE 0

\* JSON.stringify({ d: description, t: Date.now() }).
metaStringAt(description, t) ==
    "{\"d\":\"" \o description \o "\",\"t\":" \o ToString(t) \o "}"

\* JSON.stringify({ d: desc }).
metaStringOf(desc) == "{\"d\":\"" \o desc \o "\"}"

\* JSON.parse(s).d, and s itself where the client falls back to it.
JSONd(s) ==
    IF \E d \in Descriptions : s = metaStringOf(d) \/ \E t \in 0 .. MaxTime : s = metaStringAt(d, t)
    THEN CHOOSE d \in Descriptions :
            s = metaStringOf(d) \/ \E t \in 0 .. MaxTime : s = metaStringAt(d, t)
    ELSE s

\* btoa(s): the Base64 text of s, padded.
btoa(s) == [base64 |-> s, padded |-> TRUE]

\* .replace(/\+/g, '-').replace(/\//g, '_').replace(/=+$/, ''): the URL-safe
\* form, without padding.
toBase64Url(b) == [b EXCEPT !.padded = FALSE]

\* atob(mParam.replace(/-/g, '+').replace(/_/g, '/')): decoding accepts the
\* text with or without its padding.
atob(b) == b.base64

\* signInvoice: the merchant's EIP-712 signature over the invoice data under
\* the nonce the registry reports.
signInvoice(merchant, invoiceData, nonce) ==
    Sign(merchant, ThisDomain,
         Message(merchant, invoiceData.payer, parseUnits(invoiceData.amount),
                 invoiceData.expiresAt, keccak256(invoiceData.metadataString), nonce))

\* handleCreateGasless: the query parameters of the link the dashboard shows.
handleCreateGasless(merchant, form) ==
    LET metaString == metaStringAt(form.description, now)
        expiresAt == now + Day
        invoiceData == [payer |-> IF form.payer # "" THEN form.payer ELSE Zero,
                        amount |-> form.amount, expiresAt |-> expiresAt,
                        metadataString |-> metaString]
        signature == signInvoice(merchant, invoiceData, nonces[merchant])
        params == [merchant |-> merchant, amount |-> form.amount,
                   expires |-> ToString(expiresAt), meta |-> btoa(metaString),
                   sig |-> signature, registry |-> ThisDomain.verifyingContract]
    IN  IF form.payer # ""
        THEN [name \in DOMAIN params \cup {"payer"} |->
                 IF name = "payer" THEN form.payer ELSE params[name]]
        ELSE params

\* The payment page's gasless effect: what it reads from the link's query
\* (searchParams.get(name) || default) and keeps for the payment call.
gaslessParams(searchParams) ==
    [merchant |-> IF "merchant" \in DOMAIN searchParams THEN searchParams["merchant"] ELSE "",
     amount |-> IF "amount" \in DOMAIN searchParams THEN searchParams["amount"] ELSE "0",
     expiresAt |-> Number(IF "expires" \in DOMAIN searchParams
                          THEN searchParams["expires"] ELSE "0"),
     payer |-> IF "payer" \in DOMAIN searchParams THEN searchParams["payer"] ELSE Zero,
     signature |-> searchParams["sig"],
     metadataString |-> IF "m" \in DOMAIN searchParams THEN atob(searchParams["m"]) ELSE ""]

\* handlePayGasless with payGaslessInvoice: the call the page submits.
payGaslessInvoice(sender, invoiceData) ==
    createAndPayInvoice(sender, invoiceData.merchant, invoiceData.payer,
                        parseUnits(invoiceData.amount), invoiceData.expiresAt,
                        invoiceData.metadataString, invoiceData.signature)

\* handleCreate with the client's createInvoice.
handleCreate(merchant, form) ==
    createInvoice(merchant, IF form.payer # "" THEN form.payer ELSE Zero,
                  parseUnits(form.amount), now + Hour,
                  metaStringAt(form.description, now))

\* getMerchantInvoices: the description the dashboard lists for an invoice,
\* parsed from the metadata of its InvoiceCreated event.
descriptionOf(invoiceId) == JSONd(events[invoiceId][1].metadata)

\* generateEncodedLink: the payment link of a listed invoice.
generateEncodedLink(id, desc) ==
    [invoiceId |-> id, searchParams |-> [m |-> toBase64Url(btoa(metaStringOf(desc)))]]

\* PaymentPage.fetchInvoiceData, isVerified: the hash of the JSON decoded from
\* the link's m parameter equals the metaHash getInvoice returns.
isVerified(link) ==
    /\ "m" \in DOMAIN link.searchParams
    /\ keccak256(atob(link.searchParams["m"])) = getInvoice(link.invoiceId).metaHash

\* getMerchantInvoices: the entry the dashboard lists for an invoice after a
\* refresh, its status being Number(currentData.status) of getInvoice.
recentInvoice(invoiceId) ==
    LET currentData == getInvoice(invoiceId)
    IN  [id |-> invoiceId, merchant |-> currentData.merchant, payer |-> currentData.payer,
         amount |-> currentData.amount, expiresAt |-> currentData.expiresAt,
         status |-> currentData.status, metaHash |-> currentData.metaHash]

\* The dashboard renders the Cancel button of a listed invoice.
ShowsCancel(inv) == inv.status = InvoiceStatus.CREATED

\* The payment page renders the Approve / Pay action area: !isPaid && !isCancelled.
ShowsActionArea(invoice) ==
    /\ ~(invoice.status = InvoiceStatus.PAID)
    /\ ~(invoice.status = InvoiceStatus.CANCELLED)

\* The payment page's gasless effect, setMetadata: the description decoded
\* from the link's m parameter, marked verified whatever the link carries.
gaslessMetadata(searchParams) ==
    [description |-> IF "m" \in DOMAIN searchParams
                     THEN JSONd(atob(searchParams["m"])) ELSE "No description",
     verified |-> TRUE]

(* -------------------------------- clock ------------------------------- *)

\* A later block: block.timestamp does not change while a call is running.
Tick ==
    /\ stack = <<>>
    /\ now < MaxTime
    /\ now' = now + 1
    /\ UNCHANGED <<invoices, nextInvoiceId, nonces, events, transfers, consumed, stack, last>>

\* The caller takes the outcome of its call; the next call follows.
Returned ==
    /\ last # NoCall
    /\ last' = NoCall
    /\ UNCHANGED <<invoices, nextInvoiceId, nonces, events, transfers, consumed, now, stack>>

\* A transaction starts when no call is running and the outcome of the
\* previous one has been taken.
Idle == last = NoCall /\ stack = <<>>

\* A call made while transferFrom is running, by the Bank or by a contract
\* the Bank runs.
Reentered == last = NoCall /\ stack # <<>>

TxCreateInvoice ==
    /\ Idle
    /\ \E sender \in Addresses, o \in Orders :
          createInvoice(sender, o.payer, o.amount, Deadline, o.metadata)

TxPay == Idle /\ \E sender \in Addresses, id \in Ids : pay(sender, id)

TxCancelInvoice == Idle /\ \E sender \in Addresses, id \in Ids : cancelInvoice(sender, id)

TxCreateAndPayInvoice ==
    /\ Idle
    /\ \E sender \in Addresses, m \in AnyAddress, o \in Orders :
          \E sig \in SigChoices(m, o.payer, o.amount, Deadline, o.metadata, nonces[m]) :
             createAndPayInvoice(sender, m, o.payer, o.amount, Deadline, o.metadata, sig)

BankReturns == last = NoCall /\ \E success \in BOOLEAN : transferFromReturns(success)

NextBlock == Idle /\ Tick

\* Transactions sent by accounts, one call each; the Bank does not call back.
Next ==
    \/ TxCreateInvoice
    \/ TxPay
    \/ TxCancelInvoice
    \/ TxCreateAndPayInvoice
    \/ BankReturns
    \/ NextBlock
    \/ Returned

Spec == Init /\ [][Next]_vars

\* createAndPayInvoice carrying the merchant's signature over the submitted
\* fields and the current nonce.
TxCreateAndPaySigned ==
    /\ Idle
    /\ \E sender \in Addresses, m \in Addresses, o \in Orders :
          createAndPayInvoice(sender, m, o.payer, o.amount, Deadline, o.metadata,
              Sign(m, ThisDomain,
                   Message(m, o.payer, o.amount, Deadline, keccak256(o.metadata), nonces[m])))

ReenterCreateInvoice ==
    /\ Reentered
    /\ \E sender \in Addresses, o \in Orders :
          createInvoice(sender, o.payer, o.amount, Deadline, o.metadata)

ReenterPay == Reentered /\ \E sender \in Addresses, id \in Ids : pay(sender, id)

ReenterCancelInvoice ==
    Reentered /\ \E sender \in Addresses, id \in Ids : cancelInvoice(sender, id)

\* A Bank that may call back into the registry while transferFrom runs.
NextReentrant ==
    \/ TxCreateInvoice
    \/ TxPay
    \/ TxCancelInvoice
    \/ TxCreateAndPaySigned
    \/ BankReturns
    \/ NextBlock
    \/ Returned
    \/ ReenterCreateInvoice
    \/ ReenterPay
    \/ ReenterCancelInvoice

SpecReentrant == Init /\ [][NextReentrant]_vars

(* ======================= properties of the registry ==================== *)

ChainVars == <<invoices, nextInvoiceId, nonces, events, transfers, consumed>>

Times == 1 .. MaxTime

\* The ids allocated so far.
Allocated == 0 .. nextInvoiceId - 1

\* The payer restriction of the invoice admits `sender`.
Eligible(invoice, sender) == invoice.payer = Zero \/ sender = invoice.payer

\* This step is a call of pay(id) that reverted at a require.
PayRejected(id) ==
    /\ last = NoCall /\ last' # NoCall /\ stack' = stack
    /\ last'.op = "pay" /\ last'.id = id

\* This step is a call of pay(id) that passed its requires and now waits for
\* transferFrom.
PayAccepted(id) ==
    /\ Len(stack') = Len(stack) + 1
    /\ stack'[Len(stack')].op = "pay" /\ stack'[Len(stack')].id = id

PayRan(id) == PayRejected(id) \/ PayAccepted(id)

\* This step is the return of the transferFrom that `op` was waiting for.
TransferReturned(op) ==
    /\ stack # <<>> /\ Len(stack') = Len(stack) - 1
    /\ stack[Len(stack)].op = op

\* This step is a call of createAndPayInvoice that reverted at a require.
GaslessRejected ==
    /\ last = NoCall /\ last' # NoCall /\ stack' = stack
    /\ last'.op = "createAndPayInvoice"

\* This step is a call of createAndPayInvoice whose signature verified.
GaslessAccepted ==
    /\ Len(stack') = Len(stack) + 1
    /\ stack'[Len(stack')].op = "createAndPayInvoice"

\* The signature of the call is the merchant's over exactly the submitted
\* fields, for this registry, under the nonce it names.
SignedAsSubmitted(auth) ==
    auth.sig = Sign(auth.merchant, ThisDomain,
                    Message(auth.merchant, auth.payer, auth.amount, auth.expiresAt,
                            keccak256(auth.metadata), auth.sig.message.nonce))

\* The events of invoice `id` that record a transition out of Pending.
Commits(log, id) ==
    {k \in 1 .. Len(log[id]) : log[id][k].name \in {"InvoicePaid", "InvoiceCancelled"}}

RECURSIVE TransferredUpTo(_, _, _)
\* What the Bank moved to `m` for the invoices 0..n.
TransferredUpTo(chain, m, n) ==
    IF n < 0 THEN 0
    ELSE (IF Len(chain.transfers[n]) > 0 /\ chain.transfers[n][1].to = m
          THEN chain.transfers[n][1].amount ELSE 0) + TransferredUpTo(chain, m, n - 1)

Transferred(chain, m) == TransferredUpTo(chain, m, MaxInvoices)

RECURSIVE PaidUpTo(_, _, _)
\* What the Paid invoices of `m` among 0..n amount to.
PaidUpTo(chain, m, n) ==
    IF n < 0 THEN 0
    ELSE (IF chain.invoices[n].status = 1 /\ chain.invoices[n].merchant = m
          THEN chain.invoices[n].amount ELSE 0) + PaidUpTo(chain, m, n - 1)

PaidTotal(chain, m) == PaidUpTo(chain, m, MaxInvoices)

\* This step is a call of cancelInvoice(id), which returned or reverted.
CancelRan(id) ==
    /\ last = NoCall /\ last' # NoCall
    /\ last'.op = "cancelInvoice" /\ last'.id = id

\* This step is a call of createInvoice, which returned.
CreateRan ==
    /\ last = NoCall /\ last' # NoCall
    /\ last'.op = "createInvoice"

\* The InvoiceCreated events recorded for `id`.
Creations(log, id) ==
    {k \in 1 .. Len(log[id]) : log[id][k].name = "InvoiceCreated"}

\* The requires of createAndPayInvoice for the arguments `auth`, sent by
\* `sender` at `timestamp`.
GaslessRequireOf(sender, auth, timestamp) ==
    GaslessRequire(sender, auth.merchant, auth.payer, auth.amount, auth.expiresAt,
                   auth.metadata, auth.sig, timestamp, nonces[auth.merchant])

\* What the merchant can have signed in place of the submission: the
\* submitted tuple itself, and every tuple that differs from it in one signed
\* field or in the domain it was signed for.
ForgedChoices(m, p, a, e, md, n) ==
    LET msg == Message(m, p, a, e, keccak256(md), n)
    IN  {Sign(m, d, msg) : d \in Domains}
        \cup {Sign(s, ThisDomain, msg) : s \in Addresses}
        \cup {Sign(m, ThisDomain, [msg EXCEPT !.merchant = x]) : x \in Addresses}
        \cup {Sign(m, ThisDomain, [msg EXCEPT !.payer = x]) : x \in AnyAddress}
        \cup {Sign(m, ThisDomain, [msg EXCEPT !.amount = x]) : x \in Amounts}
        \cup {Sign(m, ThisDomain, [msg EXCEPT !.expiresAt = x]) : x \in {e, e + 1}}
        \cup {Sign(m, ThisDomain, [msg EXCEPT !.metaHash = keccak256(x)]) : x \in Metadata}
        \cup {Sign(m, ThisDomain, [msg EXCEPT !.nonce = x]) : x \in {n - 1, n, n + 1} \ {-1}}

\* createAndPayInvoice carrying a signature of the merchant over the
\* submission or over a tuple one field away from it.
TxCreateAndPayForged ==
    /\ Idle
    /\ \E sender \in Addresses, m \in Addresses, o \in Orders :
          \E sig \in ForgedChoices(m, o.payer, o.amount, Deadline, o.metadata, nonces[m]) :
             createAndPayInvoice(sender, m, o.payer, o.amount, Deadline, o.metadata, sig)

\* Gasless submissions only, with signatures the merchant made for another
\* tuple or another deployment among them.
NextForged ==
    \/ TxCreateAndPayForged
    \/ BankReturns
    \/ NextBlock
    \/ Returned

SpecForged == Init /\ [][NextForged]_vars

\* The parts of what was signed that differ from what createAndPayInvoice
\* was called with, the nonce being the merchant's current one.
DiffersIn(auth) ==
    LET signed == auth.sig.message
        differs ==
            [signer |-> auth.sig.signer # auth.merchant,
             merchant |-> signed.merchant # auth.merchant,
             payer |-> signed.payer # auth.payer,
             amount |-> signed.amount # auth.amount,
             expiresAt |-> signed.expiresAt # auth.expiresAt,
             metaHash |-> signed.metaHash # keccak256(auth.metadata),
             nonce |-> signed.nonce # nonces[auth.merchant],
             chainId |-> auth.sig.domain.chainId # ThisDomain.chainId,
             verifyingContract |->
                 auth.sig.domain.verifyingContract # ThisDomain.verifyingContract]
    IN  {field \in DOMAIN differs : differs[field]}

\* How many signatures of merchant `m` were consumed.
ConsumedOf(m) == Cardinality({sig \in consumed : sig.message.merchant = m})

\* createInvoice takes any uint256 as _amount, 0 included.
AnyAmountOrders == Orders \cup {[payer |-> Zero, amount |-> 0, metadata |-> "order-0"]}

TxCreateInvoiceAnyAmount ==
    /\ Idle
    /\ \E sender \in Addresses, o \in AnyAmountOrders :
          createInvoice(sender, o.payer, o.amount, Deadline, o.metadata)

\* Invoices made by createInvoice only, for any amount.
NextAnyAmount ==
    \/ TxCreateInvoiceAnyAmount
    \/ TxPay
    \/ TxCancelInvoice
    \/ BankReturns
    \/ NextBlock
    \/ Returned

SpecAnyAmount == Init /\ [][NextAnyAmount]_vars

\* The address _verifySignature recovers for the arguments `auth` under the
\* merchant's stored nonce.
Recovered(auth) ==
    ecrecover(hashTypedData(DOMAIN_SEPARATOR,
                  Message(auth.merchant, auth.payer, auth.amount, auth.expiresAt,
                          keccak256(auth.metadata), nonces[auth.merchant])),
              auth.sig)

\* This step is a call that reverted at a require, before any external call.
RequireFailed ==
    /\ last = NoCall /\ last' # NoCall /\ stack' = stack
    /\ last'.result # "ok"

\* The invoice this step's operation targets or creates: the id of the call
\* that starts waiting for its transfer, of the call whose transfer returns,
\* or of the call that completes at once.
Targeted(id) ==
    \/ Len(stack') > Len(stack) /\ stack'[Len(stack')].id = id
    \/ Len(stack') < Len(stack) /\ stack[Len(stack)].id = id
    \/ Len(stack') = Len(stack) /\ last' # NoCall /\ last'.id = id

\* The fields of an invoice that no function assigns after creation.
Terms(invoice) ==
    [merchant |-> invoice.merchant, payer |-> invoice.payer, amount |-> invoice.amount,
     expiresAt |-> invoice.expiresAt, metaHash |-> invoice.metaHash]

\* The transfer of invoice id is in progress: its call waits for transferFrom.
InTransfer(id) == \E k \in 1 .. Len(stack) : stack[k].id = id

\* The positions in the log of invoice id that hold an event of this name.
Named(log, id, name) == {k \in 1 .. Len(log[id]) : log[id][k].name = name}

\* The merchant creates an invoice from the dashboard form.
TxHandleCreate ==
    Idle /\ \E merchant \in Addresses, form \in Forms : handleCreate(merchant, form)

\* The merchant makes a gasless link from the form and a payer opens it on
\* the payment page and presses pay.
TxPayGaslessLink ==
    Idle /\ \E merchant \in Addresses, sender \in Addresses, form \in Forms :
               payGaslessInvoice(sender, gaslessParams(handleCreateGasless(merchant, form)))

\* The registry as the client drives it.
NextClient ==
    \/ TxHandleCreate
    \/ TxPayGaslessLink
    \/ TxPay
    \/ TxCancelInvoice
    \/ BankReturns
    \/ NextBlock
    \/ Returned

SpecClient == Init /\ [][NextClient]_vars

\* C1: when transferFrom reports failure during pay(id), the call ends with
\* "Transfer failed" and the chain is as it was before the call: the invoice
\* is Pending with every field unchanged, and pay(id) by any eligible caller
\* at any time not after expiresAt passes its requires again; and whenever
\* the transferFrom of a pay reports success the invoice is Paid.
C1_TransferFailedRollsBack ==
    [][/\ (TransferReturned("pay") /\ last'.result = "Transfer failed") =>
            LET frame == stack[Len(stack)]
                inv == invoices'[frame.id]
            IN  /\ last'.op = "pay" /\ last'.id = frame.id
                /\ Snapshot' = frame.snap
                /\ inv = frame.snap.invoices[frame.id]
                /\ inv.status = 0
                /\ \A sender \in Addresses, t \in Times :
                      Eligible(inv, sender) /\ t <= inv.expiresAt
                         => PayRequire(inv, sender, t) = "ok"
       /\ (TransferReturned("pay") /\ last'.result # "Transfer failed") =>
            LET frame == stack[Len(stack)]
            IN  /\ last' = Call("pay", frame.from, frame.id, "ok", NoAuth)
                /\ invoices'[frame.id].status = 1
                /\ Len(transfers'[frame.id]) = Len(transfers[frame.id]) + 1
      ]_vars

\* C1 witness: a pay has just ended with "Transfer failed", its invoice is
\* Pending and its caller may pay it again now.
C1_Witness ==
    /\ last.op = "pay" /\ last.result = "Transfer failed"
    /\ invoices[last.id].status = 0
    /\ PayRequire(invoices[last.id], last.sender, now) = "ok"

\* C2: the status of an invoice on-chain changes at most once: from Pending
\* to Paid or from Pending to Cancelled, never back to Pending and never
\* between Paid and Cancelled.
C2_StatusChangesOnce ==
    [][\A id \in Ids :
          LET old == Committed.invoices[id].status
              new == Committed'.invoices[id].status
          IN  old # new => old = 0 /\ new \in {1, 2}
      ]_vars

\* C2 witness: the merchant has just tried to cancel an invoice that is Paid,
\* and the call reverted.
C2_Witness ==
    /\ last.op = "cancelInvoice" /\ last.result = "Cannot cancel"
    /\ invoices[last.id].status = 1
    /\ last.sender = invoices[last.id].merchant

\* C3: a signature that createAndPayInvoice has consumed is never accepted
\* again with the fields it was consumed with: such a call reverts at a
\* require, allocates no invoice, moves no funds and changes nothing.
C3_NoReplay ==
    [][/\ GaslessAccepted =>
            LET auth == stack'[Len(stack')].auth
            IN  ~(auth.sig \in consumed /\ SignedAsSubmitted(auth))
       /\ (GaslessRejected /\ last'.auth.sig \in consumed /\ SignedAsSubmitted(last'.auth)) =>
            /\ last'.result \in {"Expired", "Wrong payer", "Invalid signature"}
            /\ UNCHANGED ChainVars
      ]_vars

\* C3 witness: the fields and the signature of a consumed authorization were
\* submitted again, in time and by an admitted payer, and were rejected.
C3_Witness ==
    /\ last.op = "createAndPayInvoice" /\ last.result = "Invalid signature"
    /\ last.auth.sig \in consumed /\ SignedAsSubmitted(last.auth)
    /\ now <= last.auth.expiresAt
    /\ last.auth.payer \in {Zero, last.sender}
    /\ stack = <<>>

\* C4: nonces[m] is the number of authorizations of m consumed so far: it
\* starts at 0, a createAndPayInvoice of m that succeeds adds exactly 1, and
\* no other call, and no createAndPayInvoice that fails, changes it.
C4_NonceCountsConsumed ==
    /\ [](\A m \in AnyAddress :
            nonces[m] = Cardinality({sig \in consumed : sig.message.merchant = m}))
    /\ [][\A m \in AnyAddress :
            LET old == Committed.nonces[m]
                new == Committed'.nonces[m]
                succeeded == /\ TransferReturned("createAndPayInvoice")
                             /\ last'.result = "ok"
                             /\ last'.auth.merchant = m
            IN  /\ succeeded => new = old + 1
                /\ ~succeeded => new = old
         ]_vars

\* C4 witness: a createAndPayInvoice of a merchant whose nonce is 1 has just
\* failed at the transfer, after its signature had verified.
C4_Witness ==
    /\ last.op = "createAndPayInvoice" /\ last.result = "Transfer failed"
    /\ nonces[last.auth.merchant] = 1
    /\ last.auth.sig.message.nonce = 1

\* C5: of the authorizations of one merchant signed under one nonce, at most
\* one is ever consumed.
C5_OnePerNonce ==
    \A s1 \in consumed, s2 \in consumed :
       (s1.message.merchant = s2.message.merchant /\ s1.message.nonce = s2.message.nonce)
          => s1 = s2

\* C5 witness: a second authorization the merchant signed under a nonce was
\* submitted, in time and by an admitted payer, after another one signed
\* under that nonce had been consumed, and was rejected.
C5_Witness ==
    /\ last.op = "createAndPayInvoice" /\ last.result = "Invalid signature"
    /\ SignedAsSubmitted(last.auth)
    /\ now <= last.auth.expiresAt
    /\ last.auth.payer \in {Zero, last.sender}
    /\ \E sig \in consumed :
          /\ sig # last.auth.sig
          /\ sig.message.merchant = last.auth.merchant
          /\ sig.message.nonce = last.auth.sig.message.nonce

C7_PaidBeforeTransfer ==
    /\ [](\A k \in 1 .. Len(stack) :
            stack[k].op = "pay" =>
               /\ invoices[stack[k].id].status = 1
               /\ \A sender \in Addresses, t \in Times :
                     PayRequire(invoices[stack[k].id], sender, t) = "Not pending")
    /\ [](\A id \in Ids : Len(transfers[id]) <= 1)
    /\ [][\A id \in Ids :
            (PayRan(id) /\ \E k \in 1 .. Len(stack) : stack[k].op = "pay" /\ stack[k].id = id)
                => PayRejected(id) /\ last'.result = "Not pending" /\ UNCHANGED ChainVars
         ]_vars

\* C7 witness: pay(id) is waiting for transferFrom, and a pay(id) made from
\* inside it by the payer of the invoice has reverted with "Not pending".
C7_Witness ==
    /\ stack # <<>> /\ stack[1].op = "pay"
    /\ last.op = "pay" /\ last.id = stack[1].id /\ last.result = "Not pending"
    /\ Eligible(invoices[last.id], last.sender)
    /\ now <= invoices[last.id].expiresAt
    /\ transfers[last.id] = <<>>

\* C8: on-chain, an invoice is Paid exactly when one transfer was made for
\* it, and that transfer went to the invoice's merchant for the invoice's
\* amount; what each merchant was sent is the sum of the amounts of its Paid
\* invoices.
C8_PaidIffOneTransfer ==
    /\ \A id \in Ids :
          LET inv == Committed.invoices[id]
              made == Committed.transfers[id]
          IN  /\ Len(made) <= 1
              /\ inv.status = 1 <=> Len(made) = 1
              /\ Len(made) = 1 => made[1].to = inv.merchant /\ made[1].amount = inv.amount
    /\ \A m \in AnyAddress : Transferred(Committed, m) = PaidTotal(Committed, m)

\* C8 witness: two invoices of different merchants and different amounts are
\* Paid, one by pay and one by createAndPayInvoice.
C8_Witness ==
    /\ stack = <<>>
    /\ invoices[0].status = 1 /\ invoices[1].status = 1
    /\ invoices[0].merchant # invoices[1].merchant
    /\ invoices[0].amount # invoices[1].amount
    /\ Cardinality(consumed) = 1
    /\ Transferred(Snapshot, invoices[0].merchant) = invoices[0].amount

\* C9: pay on an invoice that is Paid or Cancelled reverts with "Not pending"
\* and leaves the chain as it was, whoever calls, whatever the time and the
\* payer restriction.
C9_PayNotPending ==
    /\ [](\A id \in Ids : invoices[id].status \in {1, 2} =>
            \A sender \in Addresses, t \in Times :
               PayRequire(invoices[id], sender, t) = "Not pending")
    /\ [][\A id \in Ids :
            (PayRan(id) /\ invoices[id].status \in {1, 2}) =>
                /\ PayRejected(id)
                /\ last'.result = "Not pending"
                /\ UNCHANGED ChainVars
         ]_vars

\* C9 witness: pay on a Cancelled invoice, after its expiry and by an account
\* its payer restriction excludes, has reverted with "Not pending".
C9_Witness ==
    /\ last.op = "pay" /\ last.result = "Not pending"
    /\ invoices[last.id].status = 2
    /\ now > invoices[last.id].expiresAt
    /\ ~Eligible(invoices[last.id], last.sender)

\* C10: pay on a Pending invoice at a time after expiresAt reverts with
\* "Expired" whoever calls, makes no transfer and leaves the invoice Pending.
C10_PayExpired ==
    [][\A id \in Allocated :
          (PayRan(id) /\ invoices[id].status = 0 /\ now > invoices[id].expiresAt) =>
              /\ PayRejected(id)
              /\ last'.result = "Expired"
              /\ UNCHANGED ChainVars
              /\ invoices'[id].status = 0
              /\ transfers'[id] = <<>>
      ]_vars

\* C10 witness: pay on a Pending invoice after its expiry, by an account its
\* payer restriction excludes, has reverted with "Expired".
C10_Witness ==
    /\ last.op = "pay" /\ last.result = "Expired"
    /\ last.id \in Allocated
    /\ invoices[last.id].status = 0
    /\ now > invoices[last.id].expiresAt
    /\ ~Eligible(invoices[last.id], last.sender)

\* C11: an invoice whose payer is a specific account is only ever paid by
\* that account: every transfer made or requested for it, by pay or by
\* createAndPayInvoice, comes from its payer; pay by any other account on a
\* Pending, unexpired invoice reverts with "Wrong payer" and changes nothing;
\* an invoice whose payer is address(0) admits every caller.
C11_OnlyThePayerPays ==
    /\ [](\A id \in Ids :
            invoices[id].payer # Zero =>
               /\ \A k \in 1 .. Len(transfers[id]) :
                     transfers[id][k].from = invoices[id].payer
               /\ \A k \in 1 .. Len(events[id]) :
                     events[id][k].name = "InvoicePaid" =>
                        events[id][k].payer = invoices[id].payer
               /\ \A k \in 1 .. Len(stack) :
                     stack[k].id = id => stack[k].from = invoices[id].payer)
    /\ [](\A id \in Allocated :
            (invoices[id].status = 0 /\ invoices[id].payer = Zero) =>
               \A sender \in Addresses, t \in Times :
                  t <= invoices[id].expiresAt => PayRequire(invoices[id], sender, t) = "ok")
    /\ [][\A id \in Allocated :
            /\ PayAccepted(id) => Eligible(invoices[id], stack'[Len(stack')].from)
            /\ (PayRejected(id) /\ invoices[id].status = 0 /\ now <= invoices[id].expiresAt) =>
                  /\ ~Eligible(invoices[id], last'.sender)
                  /\ last'.result = "Wrong payer"
                  /\ UNCHANGED ChainVars
         ]_vars
    /\ [][GaslessAccepted =>
            stack'[Len(stack')].auth.payer \in {Zero, stack'[Len(stack')].from}
         ]_vars

\* C11 witness: an account other than the payer of a Pending, unexpired
\* invoice called pay and was turned away with "Wrong payer", while another
\* invoice restricted to a payer stands Paid.
C11_Witness ==
    /\ last.op = "pay" /\ last.result = "Wrong payer"
    /\ invoices[last.id].status = 0
    /\ invoices[last.id].payer \notin {Zero, last.sender}
    /\ \E id \in Allocated : invoices[id].status = 1 /\ invoices[id].payer # Zero

\* C12: an invoice becomes Cancelled only in a cancelInvoice call made by its
\* merchant; cancelInvoice by any other account reverts with "Not merchant"
\* and leaves the chain as it was.
C12_OnlyMerchantCancels ==
    /\ [][\A id \in Ids :
            (invoices[id].status # 2 /\ invoices'[id].status = 2) =>
                /\ CancelRan(id)
                /\ last'.result = "ok"
                /\ last'.sender = invoices[id].merchant
                /\ invoices[id].status = 0
         ]_vars
    /\ [][\A id \in Ids :
            (CancelRan(id) /\ last'.sender # invoices[id].merchant) =>
                /\ last'.result = "Not merchant"
                /\ UNCHANGED ChainVars
         ]_vars

\* C12 witness: the payer of a Pending invoice, who is not its merchant,
\* called cancelInvoice and was turned away; the invoice is still Pending.
C12_Witness ==
    /\ last.op = "cancelInvoice" /\ last.result = "Not merchant"
    /\ last.id \in Allocated
    /\ invoices[last.id].status = 0
    /\ last.sender = invoices[last.id].payer

\* C13: cancelInvoice never calls transferFrom and writes nothing but the
\* status of the invoice it names: no transfer is made or requested, the
\* other fields of the invoice, the other invoices, nextInvoiceId and every
\* nonce are as before, and the only event is InvoiceCancelled of that id.
C13_CancelTouchesOnlyStatus ==
    [][\A id \in Ids :
          CancelRan(id) =>
              /\ stack' = stack
              /\ transfers' = transfers
              /\ nextInvoiceId' = nextInvoiceId
              /\ nonces' = nonces
              /\ consumed' = consumed
              /\ \A j \in Ids \ {id} : invoices'[j] = invoices[j] /\ events'[j] = events[j]
              /\ invoices'[id] = [invoices[id] EXCEPT !.status = invoices'[id].status]
              /\ IF last'.result = "ok"
                 THEN /\ invoices'[id].status = 2
                      /\ events'[id] = Append(events[id], InvoiceCancelled(id))
                 ELSE /\ invoices'[id] = invoices[id]
                      /\ events'[id] = events[id]
      ]_vars

\* C13 witness: the merchant has cancelled an invoice that carries a payer, an
\* amount and a deadline, while another invoice is Paid and a nonce is in use.
C13_Witness ==
    /\ last.op = "cancelInvoice" /\ last.result = "ok"
    /\ invoices[last.id].status = 2
    /\ invoices[last.id].amount > 0
    /\ invoices[last.id].payer # Zero
    /\ \E j \in Allocated : invoices[j].status = 1 /\ Len(transfers[j]) = 1
    /\ \E m \in Addresses : nonces[m] > 0

\* C14: the ids that were written are exactly 0 .. nextInvoiceId - 1, each
\* created once; createInvoice and an accepted createAndPayInvoice take the
\* current nextInvoiceId and add 1 to it; a createAndPayInvoice that reverts,
\* at a require or at the transfer, leaves nextInvoiceId where it was, and
\* on-chain the counter never goes back.
C14_IdsDense ==
    /\ [](\A id \in Ids :
            /\ nextInvoiceId \in 0 .. MaxInvoices
            /\ id \in Allocated <=> events[id] # <<>>
            /\ id \in Allocated =>
                  /\ Creations(events, id) = {1}
                  /\ events[id][1].invoiceId = id
                  /\ invoices[id].merchant # Zero
            /\ id \notin Allocated => invoices[id] = EmptyInvoice /\ transfers[id] = <<>>)
    /\ [][/\ CreateRan =>
               /\ last'.result = "ok"
               /\ last'.id = nextInvoiceId
               /\ nextInvoiceId' = nextInvoiceId + 1
               /\ invoices[last'.id] = EmptyInvoice
          /\ GaslessAccepted =>
               /\ stack'[Len(stack')].id = nextInvoiceId
               /\ nextInvoiceId' = nextInvoiceId + 1
               /\ invoices[nextInvoiceId] = EmptyInvoice
          /\ GaslessRejected => nextInvoiceId' = nextInvoiceId
          /\ TransferReturned("createAndPayInvoice") =>
               LET frame == stack[Len(stack)]
               IN  IF last'.result = "ok"
                   THEN nextInvoiceId' = nextInvoiceId /\ last'.id = frame.id
                   ELSE /\ nextInvoiceId' = frame.id
                        /\ invoices'[frame.id] = EmptyInvoice
                        /\ events'[frame.id] = <<>>
          /\ Committed'.nextInvoiceId \in {Committed.nextInvoiceId, Committed.nextInvoiceId + 1}
         ]_vars

\* C14 witness: after one invoice was created, a createAndPayInvoice whose
\* signature verified failed at the transfer: the id it had taken is free
\* again and the counter is back at 1.
C14_Witness ==
    /\ last.op = "createAndPayInvoice" /\ last.result = "Transfer failed"
    /\ last.id = 1 /\ nextInvoiceId = 1
    /\ events[0] # <<>> /\ events[1] = <<>>

\* C15: an accepted createAndPayInvoice writes its invoice as Paid at once and
\* asks the Bank to move the amount from msg.sender to the merchant; when the
\* transfer succeeds the invoice is Paid with exactly that transfer; while
\* the call runs and ever after the invoice is not Pending, so pay on it
\* reverts with "Not pending" and cancelInvoice with "Cannot cancel", and a
\* Paid status is only ever undone by the revert of the call that wrote it.
C15_GaslessIsPaidAtOnce ==
    /\ [][GaslessAccepted =>
            LET f == stack'[Len(stack')]
            IN  /\ invoices'[f.id].status = 1
                /\ invoices'[f.id].merchant = f.auth.merchant
                /\ invoices'[f.id].amount = f.auth.amount
                /\ f.to = f.auth.merchant /\ f.amount = f.auth.amount
                /\ transfers'[f.id] = <<>>
         ]_vars
    /\ [][(TransferReturned("createAndPayInvoice") /\ last'.result = "ok") =>
            LET f == stack[Len(stack)]
            IN  /\ last'.sender = f.from /\ last'.id = f.id
                /\ invoices'[f.id].status = 1
                /\ transfers'[f.id] =
                      <<[from |-> f.from, to |-> invoices'[f.id].merchant,
                         amount |-> invoices'[f.id].amount]>>
                /\ Len(events'[f.id]) = 2
                /\ events'[f.id][2] =
                      InvoicePaid(f.id, f.from, invoices'[f.id].merchant, invoices'[f.id].amount)
         ]_vars
    /\ [](\A k \in 1 .. Len(stack) :
            stack[k].op = "createAndPayInvoice" => invoices[stack[k].id].status = 1)
    /\ [](\A id \in Ids :
            invoices[id].status = 1 =>
               /\ \A sender \in Addresses, t \in Times :
                     PayRequire(invoices[id], sender, t) = "Not pending"
               /\ CancelRequire(invoices[id], invoices[id].merchant) = "Cannot cancel")
    /\ [][\A id \in Ids :
            (invoices[id].status = 1 /\ invoices'[id].status # 1) =>
                /\ Len(stack') = Len(stack) - 1
                /\ last'.result = "Transfer failed"
                /\ invoices'[id] = stack[Len(stack)].snap.invoices[id]
         ]_vars

\* C15 witness: the only invoice there is came from createAndPayInvoice, whose
\* call has completed; its merchant then called cancelInvoice on it and was
\* turned away with "Cannot cancel".
C15_Witness ==
    /\ stack = <<>>
    /\ nextInvoiceId = 1 /\ Cardinality(consumed) = 1
    /\ invoices[0].status = 1 /\ Len(transfers[0]) = 1
    /\ last.op = "cancelInvoice" /\ last.id = 0
    /\ last.sender = invoices[0].merchant
    /\ last.result = "Cannot cancel"

\* C16: when transferFrom reports failure in a createAndPayInvoice whose
\* signature verified, the chain is as it was before the call: the id holds
\* no invoice and no event, nextInvoiceId and the merchant's nonce are back,
\* the signature is not consumed, and the same submission by the same caller
\* passes every require again at any time not after expiresAt; a
\* createAndPayInvoice is only ever rejected by a require that fails.
C16_GaslessTransferFailedRollsBack ==
    /\ [][(TransferReturned("createAndPayInvoice") /\ last'.result = "Transfer failed") =>
            LET f == stack[Len(stack)]
            IN  /\ last'.op = "createAndPayInvoice" /\ last'.auth = f.auth
                /\ Snapshot' = f.snap
                /\ invoices'[f.id] = EmptyInvoice
                /\ events'[f.id] = <<>> /\ transfers'[f.id] = <<>>
                /\ nextInvoiceId' = nextInvoiceId - 1
                /\ nonces'[f.auth.merchant] = nonces[f.auth.merchant] - 1
                /\ nonces'[f.auth.merchant] = f.auth.sig.message.nonce
                /\ f.auth.sig \notin consumed'
                /\ \A t \in Times :
                      t <= f.auth.expiresAt =>
                         GaslessRequire(f.from, f.auth.merchant, f.auth.payer, f.auth.amount,
                                        f.auth.expiresAt, f.auth.metadata, f.auth.sig, t,
                                        nonces'[f.auth.merchant]) = "ok"
         ]_vars
    /\ [][GaslessRejected =>
            /\ last'.result = GaslessRequireOf(last'.sender, last'.auth, now)
            /\ last'.result # "ok"
         ]_vars

\* C16 witness: a createAndPayInvoice failed at the transfer before the
\* deadline; its id is free, and its signature still verifies.
C16_Witness ==
    /\ last.op = "createAndPayInvoice" /\ last.result = "Transfer failed"
    /\ now <= last.auth.expiresAt
    /\ nextInvoiceId = last.id /\ invoices[last.id] = EmptyInvoice
    /\ last.auth.sig \notin consumed
    /\ GaslessRequireOf(last.sender, last.auth, now) = "ok"

\* C17: createAndPayInvoice accepts a signature only when the merchant made
\* it for exactly the submitted merchant, payer, amount, expiresAt and
\* metadata digest, under the merchant's current nonce and for this chain
\* and this contract; a submission whose signature differs in any of these
\* reverts and leaves the chain as it was.
C17_SignatureBindsEveryField ==
    /\ [][GaslessAccepted => DiffersIn(stack'[Len(stack')].auth) = {}]_vars
    /\ [][(GaslessRejected /\ DiffersIn(last'.auth) # {}) =>
            /\ last'.result \in {"Expired", "Wrong payer", "Invalid signature"}
            /\ UNCHANGED ChainVars
         ]_vars
    /\ [][(GaslessRejected /\ DiffersIn(last'.auth) # {}
              /\ now <= last'.auth.expiresAt
              /\ last'.auth.payer \in {Zero, last'.sender}) =>
            last'.result = "Invalid signature"
         ]_vars

\* C17 witness: the merchant signed the submission with another metadata
\* digest and nothing else changed; sent in time by an admitted payer, it
\* was rejected with "Invalid signature".
C17_Witness ==
    /\ last.op = "createAndPayInvoice" /\ last.result = "Invalid signature"
    /\ DiffersIn(last.auth) = {"metaHash"}
    /\ now <= last.auth.expiresAt
    /\ last.auth.payer \in {Zero, last.sender}
    /\ Cardinality(consumed) = 1

\* C18: a signature the merchant made under nonce k is accepted only while
\* nonces[merchant] = k, and acceptance moves the nonce to k + 1; with
\* everything else right, a signature under a smaller or a larger nonce is
\* rejected with "Invalid signature" and nothing changes; after n signatures
\* of the merchant were consumed, it is the one under nonce n that passes.
C18_NonceWindow ==
    /\ [][GaslessAccepted =>
            LET auth == stack'[Len(stack')].auth
            IN  /\ auth.sig.message.nonce = nonces[auth.merchant]
                /\ nonces'[auth.merchant] = auth.sig.message.nonce + 1
         ]_vars
    /\ [][(GaslessRejected /\ DiffersIn(last'.auth) = {"nonce"}
              /\ now <= last'.auth.expiresAt
              /\ last'.auth.payer \in {Zero, last'.sender}) =>
            /\ last'.result = "Invalid signature"
            /\ UNCHANGED ChainVars
         ]_vars
    /\ [](\A sender \in Addresses, m \in Addresses, o \in Orders :
            \A k \in 0 .. ConsumedOf(m) + 1 :
               LET sig == Sign(m, ThisDomain,
                               Message(m, o.payer, o.amount, Deadline, keccak256(o.metadata), k))
                   r == GaslessRequire(sender, m, o.payer, o.amount, Deadline, o.metadata,
                                       sig, Deadline, nonces[m])
               IN  o.payer \in {Zero, sender} =>
                      r = IF k = ConsumedOf(m) THEN "ok" ELSE "Invalid signature")

\* C18 witness: after one signature of the merchant was consumed, the one it
\* made under nonce 1 was accepted and paid; the nonce is 2.
C18_Witness ==
    /\ stack = <<>>
    /\ last.op = "createAndPayInvoice" /\ last.result = "ok"
    /\ last.auth.sig.message.nonce = 1
    /\ nonces[last.auth.merchant] = 2
    /\ ConsumedOf(last.auth.merchant) = 2

\* C19: createInvoice with _amount = 0 fails: it stores no invoice, takes no
\* id and emits no InvoiceCreated.  Stated of the states it leaves: no
\* createInvoice call has returned an id for an amount of 0, and no id holds
\* an invoice or an InvoiceCreated event of amount 0.
C19_ZeroAmountRejected ==
    /\ (last.op = "createInvoice" /\ last.result = "ok") => invoices[last.id].amount # 0
    /\ \A id \in Allocated :
          /\ invoices[id].amount # 0
          /\ \A k \in Creations(events, id) : events[id][k].amount # 0

\* C20: pay and cancelInvoice on an id that was never allocated fail with an
\* error of their own, "Not found", which is none of "Expired", "Not merchant"
\* and "Not pending", and getInvoice of that id returns no Pending record.
C20_UnknownIdNotFound ==
    (last.op \in {"pay", "cancelInvoice"} /\ last.id \notin Allocated) =>
        /\ last.result = "Not found"
        /\ last.result \notin {"Expired", "Not merchant", "Not pending", "Cannot cancel"}
        /\ getInvoice(last.id).status # 0

\* C21 as stated: every pay and every cancelInvoice that names a Paid or
\* Cancelled invoice fails with the invalid-state error ("Not pending" from
\* pay, "Cannot cancel" from cancelInvoice), whoever the caller is.
C21_TerminalAlwaysInvalidState ==
    (/\ last.op \in {"pay", "cancelInvoice"}
     /\ last.id \in Allocated
     /\ invoices[last.id].status \in {1, 2}
     /\ last.result \notin {"ok", "Transfer failed"})
        => last.result \in {"Not pending", "Cannot cancel"}

\* C21 amended: on a Paid or Cancelled invoice pay reverts with "Not pending"
\* for every caller, cancelInvoice reverts with "Cannot cancel" when the
\* caller is the merchant and with "Not merchant" when it is anyone else;
\* in each case the chain is left as it was.
C21_TerminalRejected ==
    [][\A id \in Ids :
          invoices[id].status \in {1, 2} =>
              /\ PayRan(id) =>
                    /\ PayRejected(id)
                    /\ last'.result = "Not pending"
                    /\ UNCHANGED ChainVars
              /\ CancelRan(id) =>
                    /\ last'.result = IF last'.sender = invoices[id].merchant
                                      THEN "Cannot cancel" ELSE "Not merchant"
                    /\ UNCHANGED ChainVars
      ]_vars

\* C21 witness: an account that is not the merchant called cancelInvoice on a
\* Paid invoice and was turned away with "Not merchant".
C21_Witness ==
    /\ last.op = "cancelInvoice" /\ last.result = "Not merchant"
    /\ last.id \in Allocated
    /\ invoices[last.id].status = 1
    /\ last.sender # invoices[last.id].merchant
    /\ stack = <<>>

\* C22: a createAndPayInvoice rejected for its signature reports one of two
\* errors the caller can tell apart: "Invalid signature" when recovery yields
\* address(0), "Signature mismatch" when it yields an address that is not
\* the merchant.
C22_TwoSignatureErrors ==
    (/\ last.op = "createAndPayInvoice"
     /\ last.result \notin {"ok", "Transfer failed", "Expired", "Wrong payer"})
        => /\ Recovered(last.auth) = Zero => last.result = "Invalid signature"
           /\ Recovered(last.auth) \notin {Zero, last.auth.merchant} =>
                 last.result = "Signature mismatch"

\* C23: a call that reverts at one of its require statements ("Not pending",
\* "Expired", "Wrong payer", "Not merchant", "Cannot cancel", "Invalid
\* signature") leaves invoices, nextInvoiceId, nonces and the event log as
\* they were, and neither makes nor requests a transfer.
C23_RequireFailureChangesNothing ==
    [][RequireFailed =>
          /\ last'.op \in {"pay", "cancelInvoice", "createAndPayInvoice"}
          /\ last'.result \in {"Not pending", "Expired", "Wrong payer", "Not merchant",
                               "Cannot cancel", "Invalid signature"}
          /\ invoices' = invoices
          /\ nextInvoiceId' = nextInvoiceId
          /\ nonces' = nonces
          /\ events' = events
          /\ transfers' = transfers
          /\ consumed' = consumed
          /\ stack' = stack
      ]_vars

\* C23 witness: with an invoice Paid, another Pending and a nonce in use, a
\* pay by an account the Pending invoice excludes has just reverted.
C23_Witness ==
    /\ last.op = "pay" /\ last.result = "Wrong payer"
    /\ nextInvoiceId = 2
    /\ invoices[last.id].status = 0
    /\ \E id \in Allocated : invoices[id].status = 1 /\ Len(events[id]) = 2
    /\ \E m \in Addresses : nonces[m] = 1

\* C24: an existing invoice keeps its merchant, payer, amount, expiresAt and
\* metaHash under every later operation; pay and cancelInvoice change only
\* the status of the invoice they target; and no operation changes an
\* invoice other than the one it targets or creates.
C24_TermsImmutable ==
    [][/\ \A id \in Ids :
            /\ (id \in Allocated /\ id \in Allocated')
                  => Terms(invoices'[id]) = Terms(invoices[id])
            /\ invoices'[id] # invoices[id] => Targeted(id)
            /\ PayAccepted(id)
                  => invoices' = [invoices EXCEPT ![id].status = 1]
            /\ (TransferReturned("pay") /\ stack[Len(stack)].id = id)
                  => \/ invoices' = invoices
                     \/ invoices' = [invoices EXCEPT ![id].status = 0]
            /\ CancelRan(id)
                  => \/ invoices' = invoices
                     \/ invoices' = [invoices EXCEPT ![id].status = 2]
      ]_vars

\* C24 witness: the merchant has just cancelled one invoice while another is
\* Paid, and both still carry the terms their creation events announced.
C24_Witness ==
    /\ last.op = "cancelInvoice" /\ last.result = "ok"
    /\ nextInvoiceId = 2
    /\ invoices[last.id].status = 2
    /\ \E id \in Allocated : id # last.id /\ invoices[id].status = 1
    /\ \A id \in Allocated :
          /\ events[id] # <<>>
          /\ Terms(events[id][1]) = Terms(invoices[id])
          /\ invoices[id].amount > 0

\* C25 as stated: in no reachable state, the states seen by a call that
\* re-enters during the transfer included, is an invoice Paid unless its
\* transfer has already reported success.
C25_PaidOnlyAfterTransfer ==
    \A id \in Ids : invoices[id].status = 1 => Len(transfers[id]) = 1

\* C25 as the code has it: an invoice is Paid without a successful transfer
\* only while its own transfer is in progress (the status is written before
\* the external call and is what a re-entering call reads); on the chain,
\* between transactions, an invoice is Paid only if its transfer succeeded.
C25_PaidPendingTransfer ==
    /\ \A id \in Ids :
          invoices[id].status = 1 => (Len(transfers[id]) = 1 \/ InTransfer(id))
    /\ \A id \in Ids :
          Committed.invoices[id].status = 1 => Len(Committed.transfers[id]) = 1

\* C25 witness: during the transfer of a pay, the merchant re-entered with
\* cancelInvoice on the same invoice and was refused because the invoice
\* already reads Paid, although no transfer has succeeded and the chain
\* still holds it as Pending.
C25_Witness ==
    /\ stack # <<>> /\ stack[1].op = "pay"
    /\ last.op = "cancelInvoice" /\ last.id = stack[1].id
    /\ last.sender = invoices[last.id].merchant
    /\ last.result = "Cannot cancel"
    /\ invoices[last.id].status = 1
    /\ transfers[last.id] = <<>>
    /\ Committed.invoices[last.id].status = 0

\* C26: on the chain every existing invoice has exactly one InvoiceCreated,
\* first in its log, with its id and stored fields; a Paid invoice has
\* exactly one InvoicePaid, a Cancelled one exactly one InvoiceCancelled, and
\* there are no other events; a call that fails or is rolled back leaves the
\* log as it was; and a payment event never comes before the creation event
\* of its invoice, the gasless call included.
C26_EventsMatchTransitions ==
    /\ [](\A id \in Ids :
            LET inv == Committed.invoices[id]
                log == Committed.events
            IN  /\ id >= Committed.nextInvoiceId => log[id] = <<>>
                /\ id < Committed.nextInvoiceId =>
                      /\ Named(log, id, "InvoiceCreated") = {1}
                      /\ log[id][1].invoiceId = id
                      /\ Terms(log[id][1]) = Terms(inv)
                      /\ keccak256(log[id][1].metadata) = inv.metaHash
                /\ Cardinality(Named(log, id, "InvoicePaid")) =
                      (IF inv.status = 1 THEN 1 ELSE 0)
                /\ Cardinality(Named(log, id, "InvoiceCancelled")) =
                      (IF inv.status = 2 THEN 1 ELSE 0)
                /\ \A k \in Named(log, id, "InvoicePaid") :
                      /\ log[id][k].invoiceId = id
                      /\ log[id][k].merchant = inv.merchant
                      /\ log[id][k].amount = inv.amount
                      /\ Eligible(inv, log[id][k].payer)
                /\ \A k \in Named(log, id, "InvoiceCancelled") : log[id][k].invoiceId = id
                /\ \A k \in Commits(events, id) : 1 \in Named(events, id, "InvoiceCreated") /\ k > 1)
    /\ [][(last' # NoCall /\ last = NoCall /\ last'.result # "ok")
             => /\ stack' = <<>>
                /\ events' = Committed.events]_vars

\* C26 witness: a gasless invoice is on the chain with its creation event
\* followed by its payment event, and a pay of a second invoice has just been
\* rolled back, leaving that invoice with its creation event only.
C26_Witness ==
    /\ stack = <<>>
    /\ last.op = "pay" /\ last.result = "Transfer failed"
    /\ Cardinality(consumed) = 1
    /\ \E id \in Allocated :
          /\ invoices[id].status = 1
          /\ Len(events[id]) = 2
          /\ events[id][1].name = "InvoiceCreated" /\ events[id][2].name = "InvoicePaid"
          /\ nonces[invoices[id].merchant] = 1
    /\ invoices[last.id].status = 0
    /\ Len(events[last.id]) = 1

\* C27: after a refresh, between transactions, the payment page shows every
\* existing invoice in the state the contract holds it in: Pending as
\* pending, Paid as PAID, Cancelled as CANCELLED.
C27_ClientShowsContractStatus ==
    stack = <<>> =>
        \A id \in Allocated :
            PageShows(fetchInvoiceData(id)) = ContractMeans(getInvoice(id).status)

\* C28: a createAndPayInvoice submitted from a gasless link of the dashboard
\* carries the merchant, payer, amount, expiresAt and metadata string the
\* merchant signed, and is accepted when the caller is an allowed payer and
\* the time is not after expiresAt (the nonce being the signed one): it
\* fails, if at all, only with the transfer.
C28_GaslessLinkAccepted ==
    (/\ last.op = "createAndPayInvoice"
     /\ last.auth.payer = Zero \/ last.sender = last.auth.payer
     /\ now <= last.auth.expiresAt)
        => /\ SignedAsSubmitted(last.auth)
           /\ last.result \in {"ok", "Transfer failed"}

\* C29: for every invoice created through the dashboard, the payment link
\* the dashboard generates for it carries a metadata payload whose hash,
\* recomputed by the payment page, equals the metaHash stored on-chain: the
\* page marks the description as verified.
C29_DashboardLinkVerifies ==
    stack = <<>> =>
        \A id \in Allocated :
            isVerified(generateEncodedLink(id, descriptionOf(id)))

\* C30: a createAndPayInvoice whose signature does not recover to the
\* merchant is rejected with the signature error, also when the submission
\* has expired or comes from a caller other than the named payer: the
\* signature is checked before expiry and payer.
C30_SignatureCheckedFirst ==
    (/\ last.op = "createAndPayInvoice"
     /\ last.result \notin {"ok", "Transfer failed"}
     /\ Recovered(last.auth) # last.auth.merchant)
        => last.result = "Invalid signature"

\* C31: pay reports the first failure in the order status, expiry, payer,
\* and cancelInvoice in the order merchant, status: pay on a non-Pending
\* expired invoice reverts with "Not pending", pay on an expired Pending
\* invoice by a wrong payer with "Expired", and cancelInvoice by a
\* non-merchant on a non-Pending invoice with "Not merchant".
C31_FirstFailureReported ==
    [][\A id \in Ids :
          /\ PayRan(id) =>
                LET sender == IF PayRejected(id) THEN last'.sender
                              ELSE stack'[Len(stack')].from
                    result == IF PayRejected(id) THEN last'.result ELSE "ok"
                IN  result = IF invoices[id].status # 0 THEN "Not pending"
                             ELSE IF now > invoices[id].expiresAt THEN "Expired"
                             ELSE IF ~Eligible(invoices[id], sender) THEN "Wrong payer"
                             ELSE "ok"
          /\ CancelRan(id) =>
                last'.result = IF last'.sender # invoices[id].merchant THEN "Not merchant"
                               ELSE IF invoices[id].status # 0 THEN "Cannot cancel"
                               ELSE "ok"
      ]_vars

\* C31 witness: an account that is not the merchant called cancelInvoice on
\* an invoice already Cancelled and expired, and was turned away with "Not
\* merchant"; the invoice names a payer.
C31_Witness ==
    /\ last.op = "cancelInvoice" /\ last.result = "Not merchant"
    /\ last.id \in Allocated
    /\ invoices[last.id].status = 2
    /\ last.sender # invoices[last.id].merchant
    /\ now > invoices[last.id].expiresAt
    /\ invoices[last.id].payer # Zero

\* C32: the deadline is inclusive. pay on a Pending invoice reverts with
\* "Expired" exactly when block.timestamp > expiresAt, createAndPayInvoice
\* exactly when block.timestamp > _expiresAt; at block.timestamp = expiresAt
\* neither does.
C32_DeadlineInclusive ==
    [][/\ \A id \in Allocated :
            (PayRan(id) /\ invoices[id].status = 0) =>
                ((PayRejected(id) /\ last'.result = "Expired")
                    <=> now > invoices[id].expiresAt)
       /\ GaslessRejected =>
             (last'.result = "Expired" <=> now > last'.auth.expiresAt)
       /\ GaslessAccepted => now <= stack'[Len(stack')].auth.expiresAt
      ]_vars

\* C32 witness: a createAndPayInvoice submitted at block.timestamp equal to
\* its _expiresAt has gone through, and an invoice created earlier was paid
\* by pay at its deadline too.
C32_Witness ==
    /\ last.op = "createAndPayInvoice" /\ last.result = "ok"
    /\ now = last.auth.expiresAt
    /\ \E id \in Allocated :
          /\ id # last.id
          /\ invoices[id].status = 1
          /\ Named(events, id, "InvoicePaid") # {}
          /\ invoices[id].expiresAt = now
          /\ invoices[id].merchant \notin {m \in Addresses : nonces[m] > 0}

\* C33: the clock never goes back, and an invoice becomes Paid only at a
\* time not after its expiresAt; so a Pending invoice whose expiresAt has
\* passed stays Pending or becomes Cancelled, and no pay on it is accepted.
\* createInvoice with an expiresAt already in the past succeeds and stores a
\* Pending invoice.
C33_ExpiryIsPermanent ==
    [][/\ now' >= now
       /\ \A id \in Ids :
             /\ (invoices'[id].status = 1 /\ invoices[id].status # 1)
                   => now <= invoices'[id].expiresAt
             /\ (id \in Allocated /\ invoices[id].status = 0 /\ now > invoices[id].expiresAt)
                   => /\ ~PayAccepted(id)
                      /\ invoices'[id].status \in {0, 2}
                      /\ now' > invoices'[id].expiresAt
       /\ CreateRan =>
             /\ last'.result = "ok"
             /\ invoices'[last'.id].status = 0
             /\ last'.id \in Allocated'
      ]_vars

\* C33 witness: createInvoice with an expiresAt already in the past has just
\* stored a Pending invoice, while an earlier invoice that expired unpaid has
\* been cancelled.
C33_Witness ==
    /\ last.op = "createInvoice" /\ last.result = "ok"
    /\ invoices[last.id].status = 0
    /\ invoices[last.id].expiresAt < now
    /\ \E id \in Allocated :
          /\ invoices[id].status = 2
          /\ invoices[id].expiresAt < now
          /\ transfers[id] = <<>>

\* C34: createAndPayInvoice with _merchant = address(0) is rejected whatever
\* the signature, also when ecrecover fails and yields address(0): no such
\* call is accepted, the nonce of address(0) stays 0 and no invoice has
\* address(0) as merchant.
C34_NullMerchantRejected ==
    /\ [](/\ nonces[Zero] = 0
          /\ \A id \in Allocated : invoices[id].merchant # Zero
          /\ \A k \in 1 .. Len(stack) : stack[k].to # Zero)
    /\ [][/\ GaslessAccepted => stack'[Len(stack')].auth.merchant # Zero
          /\ (GaslessRejected /\ last'.auth.merchant = Zero)
                => /\ last'.result \in {"Expired", "Wrong payer", "Invalid signature"}
                   /\ UNCHANGED ChainVars
          /\ (last = NoCall /\ last' # NoCall /\ last'.op = "createAndPayInvoice"
              /\ last'.auth.merchant = Zero) => GaslessRejected
         ]_vars

\* C34 witness: a createAndPayInvoice for merchant address(0), in time and
\* from an allowed payer, carried a signature from which ecrecover yields
\* address(0), and was rejected with "Invalid signature".
C34_Witness ==
    /\ last.op = "createAndPayInvoice"
    /\ last.auth.merchant = Zero
    /\ Recovered(last.auth) = Zero
    /\ now <= last.auth.expiresAt
    /\ Eligible(last.auth, last.sender)
    /\ last.result = "Invalid signature"

\* C35: every stored invoice has amount > 0, and no transfer of amount 0 is
\* requested or made.
C35_AmountsPositive ==
    /\ \A id \in Allocated : invoices[id].amount > 0
    /\ \A k \in 1 .. Len(stack) : stack[k].amount > 0
    /\ \A id \in Ids : \A k \in 1 .. Len(transfers[id]) : transfers[id][k].amount > 0

\* C36: after a refresh, between transactions, the dashboard shows the
\* Cancel button of an invoice exactly when the invoice is Pending on-chain,
\* and the payment page shows the Approve / Pay action area exactly when the
\* invoice is Pending on-chain.
C36_ActionsMatchContractState ==
    stack = <<>> =>
        \A id \in Allocated :
            /\ ShowsCancel(recentInvoice(id)) <=> getInvoice(id).status = StatusOnChain.Pending
            /\ ShowsActionArea(fetchInvoiceData(id))
                  <=> getInvoice(id).status = StatusOnChain.Pending

\* C37: the payment page marks a description as verified only if the link
\* carries a metadata payload whose hash equals the metaHash bound to the
\* invoice: the stored metaHash for an on-chain invoice, the signed metaHash
\* for a gasless link. Stated for the dashboard's links of the existing
\* invoices and for the gasless link last opened and submitted.
C37_VerifiedOnlyIfHashMatches ==
    /\ stack = <<>> =>
          \A id \in Allocated :
             LET link == generateEncodedLink(id, descriptionOf(id))
             IN  isVerified(link) =>
                    /\ "m" \in DOMAIN link.searchParams
                    /\ keccak256(atob(link.searchParams["m"])) = invoices[id].metaHash
    /\ last.op = "createAndPayInvoice" =>
          \A merchant \in Addresses, form \in Forms :
             LET searchParams == handleCreateGasless(merchant, form)
             IN  (searchParams["sig"] = last.auth.sig /\ gaslessMetadata(searchParams).verified)
                    => /\ "m" \in DOMAIN searchParams
                       /\ keccak256(atob(searchParams["m"])) = searchParams["sig"].message.metaHash

C39_NoncesIsolated ==
    [][/\ GaslessAccepted =>
             LET M == stack'[Len(stack')].auth.merchant
             IN  nonces' = [nonces EXCEPT ![M] = nonces[M] + 1]
       /\ GaslessRejected => nonces' = nonces
       /\ TransferReturned("createAndPayInvoice") =>
             \A m \in AnyAddress :
                m # stack[Len(stack)].auth.merchant => nonces'[m] = nonces[m]
       /\ (CreateRan \/ TransferReturned("pay") \/ \E id \in Ids : PayRan(id) \/ CancelRan(id))
             => nonces' = nonces
      ]_vars

\* C39 witness: both merchants have had one authorization consumed, the
\* second just now by a caller who is not its merchant; each nonce is 1 and
\* that of address(0) is 0.
C39_Witness ==
    /\ last.op = "createAndPayInvoice" /\ last.result = "ok"
    /\ last.sender # last.auth.merchant
    /\ \A m \in Addresses : nonces[m] = 1
    /\ nonces[Zero] = 0
    /\ Cardinality(consumed) = 2

\* C40: the source of every transfer the registry requests or makes is the
\* caller of the pay or createAndPayInvoice that requests it, never the
\* merchant who signed or the named payer when another account calls.
C40_TransferFromCaller ==
    /\ [](\A k \in 1 .. Len(stack) : stack[k].from = stack[k].sender)
    /\ [][\A op \in {"pay", "createAndPayInvoice"} :
            (TransferReturned(op) /\ last'.result = "ok") =>
                LET id == last'.id
                IN  /\ Len(transfers'[id]) = Len(transfers[id]) + 1
                    /\ transfers'[id][Len(transfers'[id])].from = last'.sender
                    /\ last'.sender = stack[Len(stack)].sender
         ]_vars

\* C40 witness: an open authorization signed by one account was submitted by
\* another; the transfer made came from the submitter, not from the signer.
C40_Witness ==
    /\ last.op = "createAndPayInvoice" /\ last.result = "ok"
    /\ last.auth.payer = Zero
    /\ last.auth.sig.signer = last.auth.merchant
    /\ last.sender # last.auth.merchant
    /\ Len(transfers[last.id]) = 1
    /\ transfers[last.id][1].from = last.sender
    /\ transfers[last.id][1].to = last.auth.merchant

====
